---- MODULE Spec2Model ----
(***************************************************************************)
(* A model of SurveyChatbot (src/survey_chatbot.py): the column profile    *)
(* computed at construction, the conversation history, the two completion  *)
(* calls of ask, the parsing of the completion into narrative and code,    *)
(* and the execution of the generated code against pyplot's figure stack;  *)
(* and of the chat store (src/chat_history/chat_history_manager.py) and    *)
(* the session of the dashboard (src/dashboard.py) that calls both.        *)
(*                                                                         *)
(* Strings are sequences of tokens.  A query is a sequence of characters.  *)
(* A completion is a sequence over the two markers, a text token and the   *)
(* whitespace tokens; str.strip, str.split and the `in` test are computed  *)
(* on these sequences as Python computes them on the characters.           *)
(***************************************************************************)
EXTENDS Integers, Sequences, FiniteSets, TLC

VARIABLES
    df,                    \* analytics.survey_data['data']: [cols, nrows]
    columns,               \* self.columns
    column_types,          \* self.column_types, column -> type
    numeric_columns,       \* self.numeric_columns
    categorical_columns,   \* self.categorical_columns
    datetime_columns,      \* self.datetime_columns
    text_columns,          \* self.text_columns
    conversation_history,  \* self.conversation_history
    figs,                  \* pyplot's open figures, the current one last
    last,                  \* what the last call of ask did and returned
    chats_table,           \* ChatHistoryManager.chats_table, oldest first
    query_cache,           \* the results chats_table keeps, by the id searched
    clock,                 \* time.time()
    uuids,                 \* how many ids uuid.uuid4() has given
    session_state,         \* st.session_state: current_chat_id, messages,
                           \* process_message, current_message, input_field
    messages_of,           \* the id whose cached document owns the list that
                           \* st.session_state.messages is, or 0
    returned               \* what the last call of a store method returned

vars == <<df, columns, column_types, numeric_columns, categorical_columns,
          datetime_columns, text_columns, conversation_history, figs, last,
          chats_table, query_cache, clock, uuids, session_state, messages_of,
          returned>>

ui == <<chats_table, query_cache, clock, uuids, session_state, messages_of,
        returned>>

chatbot == <<df, columns, column_types, numeric_columns, categorical_columns,
             datetime_columns, text_columns, conversation_history, figs, last>>

profile == <<columns, column_types, numeric_columns, categorical_columns,
             datetime_columns, text_columns>>

-----------------------------------------------------------------------------
(* Bounds of the model.                                                    *)

\* Spec: ask is taken while the history holds fewer turns than this.
MaxTurns == 2
\* SpecWindow: ask is taken while the history holds at most this many turns.
MaxLongTurns == 11
\* SpecParse: the longest completion, in tokens.
MaxLen == 5
\* SpecMode: the longest query, in words.
MaxWords == 2
\* SpecRelevance: the longest relevance response, in tokens.
MaxRelLen == 4
\* SpecProfile: the most rows of a dataset.
MaxRows == 6
\* ask is taken while fewer figures than this are open.
MaxFigs == 2
\* SpecUI, SpecStore: uuid4 gives at most this many ids.
MaxChats == 3
\* SpecUI: the clock is read while it is below this.
MaxClock == 11
\* SpecStore: the clock is read while it is below this.
MaxStoreClock == 5

-----------------------------------------------------------------------------
(* Program constants.                                                      *)

\* self.conversation_history[-10:]
WindowSize == 10

START == "[CODE]"
END == "[/CODE]"
Whitespace == {" ", "\n"}
None == "None"

NoDataMessage ==
    <<"I don't have any survey data to analyze. Please make sure the survey data is loaded correctly.">>
ErrorPrefix == "I encountered an error while processing your question: "
VisualizationGenerated == <<"\n", "\n", "(Visualization generated)">>

-----------------------------------------------------------------------------
(* Python's string operations, on sequences of tokens.                     *)

RECURSIVE LStrip(_)
LStrip(s) ==
    IF s # <<>> /\ Head(s) \in Whitespace THEN LStrip(Tail(s)) ELSE s

RECURSIVE RStrip(_)
RStrip(s) ==
    IF s # <<>> /\ s[Len(s)] \in Whitespace
    THEN RStrip(SubSeq(s, 1, Len(s) - 1))
    ELSE s

\* str.strip()
Strip(s) == RStrip(LStrip(s))

\* sep in s, for a one-token sep
Contains(s, sep) == \E i \in 1..Len(s) : s[i] = sep

\* s.find(sep) + 1, or 0
Find(s, sep) ==
    IF Contains(s, sep)
    THEN CHOOSE i \in 1..Len(s) :
            s[i] = sep /\ \A j \in 1..(i - 1) : s[j] # sep
    ELSE 0

\* s.split(sep), for a one-token sep
RECURSIVE Split(_, _)
Split(s, sep) ==
    IF ~Contains(s, sep)
    THEN <<s>>
    ELSE <<SubSeq(s, 1, Find(s, sep) - 1)>>
            \o Split(SubSeq(s, Find(s, sep) + 1, Len(s)), sep)

\* needle in s, for a sequence needle
IsSubstring(needle, s) ==
    \E i \in 0..(Len(s) - Len(needle)) :
        SubSeq(s, i + 1, i + Len(needle)) = needle

Letters ==
    <<"a", "b", "c", "d", "e", "f", "g", "h", "i", "j", "k", "l", "m", "n",
    "o", "p", "q", "r", "s", "t", "u", "v", "w", "x", "y", "z">>

Capitals ==
    <<"A", "B", "C", "D", "E", "F", "G", "H", "I", "J", "K", "L", "M", "N",
    "O", "P", "Q", "R", "S", "T", "U", "V", "W", "X", "Y", "Z">>

UpperToLower ==
    [c \in {Capitals[i] : i \in DOMAIN Capitals} |->
        Letters[CHOOSE i \in DOMAIN Capitals : Capitals[i] = c]]

\* str.lower()
Lower(s) ==
    [i \in 1..Len(s) |->
        IF s[i] \in DOMAIN UpperToLower THEN UpperToLower[s[i]] ELSE s[i]]

-----------------------------------------------------------------------------
(* The dataset.  A column is [name, dtype, nunique]; dtype is "numeric",   *)
(* "datetime" or "object".                                                 *)

\* DataFrame.empty: some axis has length 0
DfEmpty(d) == Len(d.cols) = 0 \/ d.nrows = 0

\* list(df.columns)
DfColumns(d) == [i \in 1..Len(d.cols) |-> d.cols[i].name]

\* the column of d named col
DfCol(d, col) ==
    d.cols[CHOOSE i \in 1..Len(d.cols) : d.cols[i].name = col]

RECURSIVE Filter(_, _)
\* [x for x in s if x in keep]
Filter(s, keep) ==
    IF s = <<>> THEN <<>>
    ELSE IF Head(s) \in keep
         THEN <<Head(s)>> \o Filter(Tail(s), keep)
         ELSE Filter(Tail(s), keep)

SeqToSet(s) == {s[i] : i \in 1..Len(s)}

\* ColumnType with the boundary on the categorical side: unique_ratio <= 0.2
ColumnTypeInclusive(d, c) ==
    IF c.dtype = "numeric" THEN "numeric"
    ELSE IF c.dtype = "datetime" THEN "datetime"
    ELSE IF 5 * c.nunique <= d.nrows THEN "categorical"
    ELSE "text"

\* the type _analyze_survey_structure gives the column c of d
ColumnType(d, c) ==
    IF c.dtype = "numeric" THEN "numeric"
    ELSE IF c.dtype = "datetime" THEN "datetime"
    \* unique_ratio = nunique / len(df) < 0.2
    ELSE IF 5 * c.nunique < d.nrows THEN "categorical"
    ELSE "text"

\* the loop of _analyze_survey_structure without its skip of response_id
ClassifiedAll(d) == SeqToSet(DfColumns(d))

\* the names the loop of _analyze_survey_structure classifies
Classified(d) == {c \in SeqToSet(DfColumns(d)) : c \notin {"response_id"}}

\* SurveyChatbot._analyze_survey_structure
AnalyzeSurveyStructure(d) ==
    LET cols == IF DfEmpty(d) THEN <<>> ELSE DfColumns(d)
        seen == IF DfEmpty(d) THEN {} ELSE Classified(d)
        types == [c \in seen |-> ColumnType(d, DfCol(d, c))]
        OfType(t) == Filter(cols, {c \in seen : types[c] = t})
    IN  [columns |-> cols,
         column_types |-> types,
         numeric_columns |-> OfType("numeric"),
         categorical_columns |-> OfType("categorical"),
         datetime_columns |-> OfType("datetime"),
         text_columns |-> OfType("text")]

EmptyDf == [cols |-> <<>>, nrows |-> 0]

NoRowsDf ==
    [cols |-> <<[name |-> "response_id", dtype |-> "object", nunique |-> 0]>>,
     nrows |-> 0]

SurveyDf ==
    [cols |-> <<[name |-> "response_id", dtype |-> "object", nunique |-> 10],
                [name |-> "age_group", dtype |-> "object", nunique |-> 1],
                [name |-> "satisfaction", dtype |-> "numeric", nunique |-> 5]>>,
     nrows |-> 10]

ColumnNames == {"response_id", "age_group", "satisfaction"}

\* the columns of the name `name` in a dataset of n rows: an object column
\* has 0..n distinct values, a numeric or datetime one has n
ColumnsNamed(name, n) ==
    {[name |-> name, dtype |-> "object", nunique |-> u] : u \in 0..n}
        \cup {[name |-> name, dtype |-> t, nunique |-> n] :
                    t \in {"numeric", "datetime"}}

\* every dataset of n rows whose columns have distinct names of ColumnNames
DatasetsOfRows(n) ==
    {[cols |-> cs, nrows |-> n] :
        cs \in {s \in UNION {[1..k -> UNION {ColumnsNamed(c, n) :
                                                c \in ColumnNames}] :
                                k \in 0..Cardinality(ColumnNames)} :
                    \A i, j \in 1..Len(s) :
                        i # j => s[i].name # s[j].name}}

\* every dataset of at most n rows
ProfileDatasets(n) == UNION {DatasetsOfRows(r) : r \in 0..n}

Datasets == {EmptyDf, NoRowsDf, SurveyDf}

-----------------------------------------------------------------------------
(* The relevance selector.  rel is the outcome of its completion call:     *)
(* [ok, content]; ok is FALSE when the call, or reading its content,       *)
(* raises.                                                                 *)

LowerToken(t) == IF t \in {"None", "NONE"} THEN "none" ELSE t

\* str.lower(), on the tokens of a relevance response
LowerTokens(s) == [i \in 1..Len(s) |-> LowerToken(s[i])]

\* ValidColumns without col.strip()
RECURSIVE ValidColumnsUnstripped(_, _)
ValidColumnsUnstripped(pieces, known) ==
    IF pieces = <<>> THEN <<>>
    ELSE LET col == Head(pieces)
         IN  IF Len(col) = 1 /\ col[1] \in SeqToSet(known)
             THEN <<col[1]>> \o ValidColumnsUnstripped(Tail(pieces), known)
             ELSE ValidColumnsUnstripped(Tail(pieces), known)

\* [col.strip() for col in relevant_columns.split(',')] that are in self.columns
RECURSIVE ValidColumns(_, _)
ValidColumns(pieces, known) ==
    IF pieces = <<>> THEN <<>>
    ELSE LET col == Strip(Head(pieces))
         IN  IF Len(col) = 1 /\ col[1] \in SeqToSet(known)
             THEN <<col[1]>> \o ValidColumns(Tail(pieces), known)
             ELSE ValidColumns(Tail(pieces), known)

\* _identify_relevant_columns answering every column when its call fails
IdentifyRelevantColumnsOrAll(known, rel) ==
    IF known = <<>> THEN <<>>
    ELSE IF ~rel.ok THEN known
    ELSE LET relevant_columns == Strip(rel.content)
         IN  IF LowerTokens(relevant_columns) = <<"none">> THEN <<>>
             ELSE ValidColumns(Split(relevant_columns, ","), known)

\* SurveyChatbot._identify_relevant_columns
IdentifyRelevantColumns(known, rel) ==
    IF known = <<>> THEN <<>>
    ELSE IF ~rel.ok THEN <<>>
    ELSE LET relevant_columns == Strip(rel.content)
         IN  IF LowerTokens(relevant_columns) = <<"none">> THEN <<>>
             ELSE ValidColumns(Split(relevant_columns, ","), known)

\* whether _identify_relevant_columns issues its completion call
RelevanceCalls(known) == IF known = <<>> THEN 0 ELSE 1

-----------------------------------------------------------------------------
(* The data summary and the system prompt.                                 *)

\* the kind of summary _prepare_data_summary writes for col
SummaryKind(col, numeric, categorical, datetime) ==
    IF col \in SeqToSet(numeric) THEN "numeric"
    ELSE IF col \in SeqToSet(categorical) THEN "categorical"
    ELSE IF col \in SeqToSet(datetime) THEN "date/time"
    ELSE "text/other"

RECURSIVE ColumnSummaries(_, _, _, _, _)
ColumnSummaries(relevant, d, numeric, categorical, datetime) ==
    IF relevant = <<>> THEN <<>>
    ELSE LET col == Head(relevant)
             rest == ColumnSummaries(Tail(relevant), d, numeric, categorical,
                                     datetime)
         IN  IF col \notin SeqToSet(DfColumns(d)) THEN rest
             ELSE <<col, SummaryKind(col, numeric, categorical, datetime)>>
                    \o rest

\* SurveyChatbot._prepare_data_summary
PrepareDataSummary(relevant, d, numeric, categorical, datetime) ==
    IF DfEmpty(d) THEN <<"No data available.">>
    ELSE IF relevant = <<>> THEN <<"general summary">>
    ELSE ColumnSummaries(relevant, d, numeric, categorical, datetime)

Keywords ==
    { <<"c", "h", "a", "r", "t">>, <<"g", "r", "a", "p", "h">>,
      <<"p", "l", "o", "t">>, <<"v", "i", "s", "u", "a", "l">>,
      <<"s", "h", "o", "w", " ", "m", "e">>,
      <<"d", "i", "s", "p", "l", "a", "y">>,
      <<"h", "i", "s", "t", "o", "g", "r", "a", "m">>,
      <<"b", "a", "r">>, <<"p", "i", "e">> }

\* is_visualization_request without query.lower()
IsVisualizationRequestCaseSensitive(query) ==
    \E term \in Keywords : IsSubstring(term, query)

\* is_visualization_request
IsVisualizationRequest(query) ==
    \E term \in Keywords : IsSubstring(term, Lower(query))

\* system_prompt, as the mode and the data summary it embeds
SystemPrompt(query, data_summary) ==
    <<IF IsVisualizationRequest(query) THEN "visualization" ELSE "narrative">>
        \o data_summary

-----------------------------------------------------------------------------
(* The conversation.                                                       *)

Turn(role, content) == [role |-> role, content |-> content]

\* ContextWindow without the slice: the whole history is forwarded
ContextWindowWhole(history) == history

\* ContextWindow slicing from the front: history[:10]
ContextWindowOldest(history) ==
    IF Len(history) <= WindowSize THEN history
    ELSE SubSeq(history, 1, WindowSize)

\* self.conversation_history[-10:]
ContextWindow(history) ==
    IF Len(history) <= WindowSize THEN history
    ELSE SubSeq(history, Len(history) - WindowSize + 1, Len(history))

\* Messages with the query sent once more after the context window
MessagesWithQuery(system_prompt, history) ==
    <<Turn("system", system_prompt)>> \o ContextWindow(history)
        \o <<history[Len(history)]>>

\* messages: the system prompt, then the context window
Messages(system_prompt, history) ==
    <<Turn("system", system_prompt)>> \o ContextWindow(history)

-----------------------------------------------------------------------------
(* pyplot's figure stack.  A figure is named by what created it: the       *)
(* sandbox ("sandbox"), the generated code ("code") or plt.gcf() on an     *)
(* empty stack ("gcf").  The current figure is the last one.               *)

\* plt.figure(): a new figure, made current
PltFigure(open, by) == Append(open, by)

\* plt.close(): closes the current figure
PltClose(open) ==
    IF open = <<>> THEN open ELSE SubSeq(open, 1, Len(open) - 1)

\* plt.gcf(), plt.tight_layout(): a figure is created when none is open
PltGcf(open) == IF open = <<>> THEN PltFigure(open, "gcf") ELSE open

\* the names bound at the top of survey_chatbot.py
ModuleGlobals ==
    {"os", "openai", "load_dotenv", "pd", "plt", "io", "base64", "np",
     "Counter", "time", "SurveyChatbot"}

\* the local names of _execute_visualization_code when it reaches exec
SandboxLocals == {"self", "code", "df"}

\* exec(code) is given no namespace of its own: the generated code runs in
\* the globals of the module and the locals of the calling method
ExecNamespace == ModuleGlobals \cup SandboxLocals

\* What running the generated code does: a sequence of "figure"
\* (plt.figure()), "close" (plt.close()), "raise" (an Exception) and
\* "history.append" (self.conversation_history.append of an assistant turn
\* whose content is code).  A statement that names an unbound variable
\* raises NameError.
RECURSIVE Exec(_, _)
\* exec(code), on pyplot's figures
Exec(run, open) ==
    IF run = <<>> THEN [figs |-> open, exc |-> None]
    ELSE IF Head(run) = "raise" THEN [figs |-> open, exc |-> "Exception"]
    ELSE IF Head(run) = "history.append"
         THEN IF {"self", "code"} \subseteq ExecNamespace
              THEN Exec(Tail(run), open)
              ELSE [figs |-> open, exc |-> "NameError"]
    ELSE IF Head(run) = "figure"
         THEN Exec(Tail(run), PltFigure(open, "code"))
         ELSE Exec(Tail(run), PltClose(open))

RECURSIVE Written(_, _)
\* exec(code), on the conversation history: the turns the generated code
\* appends to it before it ends or raises
Written(run, code) ==
    IF run = <<>> \/ Head(run) = "raise" THEN <<>>
    ELSE IF Head(run) = "history.append"
         THEN IF {"self", "code"} \subseteq ExecNamespace
              THEN <<Turn("assistant", code)>> \o Written(Tail(run), code)
              ELSE <<>>
    ELSE Written(Tail(run), code)

\* _execute_visualization_code encoding the canvas in a finally clause: an
\* image is returned although the code raised
ExecuteVisualizationCodeFinally(run, render, open) ==
    LET created == PltFigure(open, "sandbox")
        ran == Exec(run, created)
        laid == PltGcf(ran.figs)
    IN  IF render = "raise"
        THEN [img |-> None, figs |-> laid, exc |-> None]
        ELSE [img |-> "png", figs |-> PltClose(laid), exc |-> None]

\* SurveyChatbot._execute_visualization_code; render is "raise" when
\* tight_layout or savefig raises
ExecuteVisualizationCode(run, render, open) ==
    LET created == PltFigure(open, "sandbox")
        ran == Exec(run, created)
        laid == PltGcf(ran.figs)
    IN  IF ran.exc # None
        THEN [img |-> None, figs |-> ran.figs, exc |-> None]
        ELSE IF render = "raise"
        THEN [img |-> None, figs |-> laid, exc |-> None]
        ELSE [img |-> "png", figs |-> PltClose(laid), exc |-> None]

-----------------------------------------------------------------------------
(* ask.  gen is the outcome of the generation call: [ok, content, err];    *)
(* ok is FALSE when the call, or reading its content, raises err.          *)

\* ParseResponse testing the start marker alone, the code running to the end
\* of the text when no end marker follows
ParseResponseStartOnly(response_text) ==
    IF Contains(response_text, START)
    THEN LET code_parts == Split(response_text, START)
         IN  [has_code |-> TRUE,
              explanation |-> Strip(code_parts[1]),
              code |-> Strip(Split(code_parts[2], END)[1])]
    ELSE [has_code |-> FALSE, explanation |-> response_text, code |-> <<>>]

\* ParseResponse without the strip() of the two parts
ParseResponseUnstripped(response_text) ==
    IF Contains(response_text, START) /\ Contains(response_text, END)
    THEN LET code_parts == Split(response_text, START)
         IN  [has_code |-> TRUE,
              explanation |-> code_parts[1],
              code |-> Split(code_parts[2], END)[1]]
    ELSE [has_code |-> FALSE, explanation |-> response_text, code |-> <<>>]

\* lines 259-263: the split of response_text into explanation and code
ParseResponse(response_text) ==
    IF Contains(response_text, START) /\ Contains(response_text, END)
    THEN LET code_parts == Split(response_text, START)
         IN  [has_code |-> TRUE,
              explanation |-> Strip(code_parts[1]),
              code |-> Strip(Split(code_parts[2], END)[1])]
    ELSE [has_code |-> FALSE, explanation |-> response_text, code |-> <<>>]

\* the text ask returns when the completion holds a code block
TextWithCode(explanation) == explanation \o VisualizationGenerated

\* WithAssistant appending the turn a second time
WithAssistantTwice(history, response_text) ==
    Append(Append(history, Turn("assistant", response_text)),
           Turn("assistant", response_text))

\* the history once the completion has been read
WithAssistant(history, response_text) ==
    Append(history, Turn("assistant", response_text))

\* ask starting the history over with the query
WithUserFresh(history, query) == <<Turn("user", query)>>

\* the history once ask has taken the query
WithUser(history, query) == Append(history, Turn("user", query))

NoCall ==
    [query |-> <<>>, path |-> "none", text |-> <<>>, visualization |-> None,
     exc |-> None, events |-> <<>>, messages |-> <<>>,
     relevant_columns |-> <<>>, completion |-> <<>>, explanation |-> <<>>,
     code |-> <<>>, sandbox_runs |-> 0, run |-> <<>>, render |-> "ok",
     gen_failed |-> FALSE, error |-> "", rel_failed |-> FALSE,
     relevance |-> <<>>]

\* ask without its early return
NoDataUnchecked(known, d) == FALSE

\* the early return of ask
NoData(known, d) == known = <<>> \/ DfEmpty(d)

\* lines 252-274: the try block of ask once the completion call has returned
AfterGeneration(gen, run, render, history, open, call) ==
    LET response_text == Strip(gen.content)
        appended == WithAssistant(history, response_text)
        parsed == ParseResponse(response_text)
        sandbox == ExecuteVisualizationCode(run, render, open)
        read == [call EXCEPT
                    !.completion = gen.content,
                    !.explanation = parsed.explanation,
                    !.events = @ \o <<"append_assistant", "parse">>]
        ran == [read EXCEPT
                    !.code = parsed.code, !.sandbox_runs = 1,
                    !.run = run, !.render = render,
                    !.events = @ \o <<"sandbox">>]
    IN  IF ~parsed.has_code
        THEN [history |-> appended, figs |-> open, exc |-> None,
              last |-> [read EXCEPT !.path = "no_code",
                                    !.text = response_text]]
        ELSE IF sandbox.exc # None
        THEN [history |-> appended \o Written(run, parsed.code),
              figs |-> sandbox.figs, exc |-> sandbox.exc, last |-> ran]
        ELSE [history |-> appended \o Written(run, parsed.code),
              figs |-> sandbox.figs, exc |-> None,
              last |-> [ran EXCEPT !.path = "code",
                                   !.text = TextWithCode(parsed.explanation),
                                   !.visualization = sandbox.img]]

\* the try block also recording the failure as an assistant turn
TryBlockRecordsFailure(gen, run, render, history, open, call) ==
    IF ~gen.ok
    THEN [history |-> WithAssistant(history, <<ErrorPrefix, gen.err>>),
          figs |-> open, exc |-> gen.err,
          last |-> [call EXCEPT !.gen_failed = TRUE, !.error = gen.err]]
    ELSE AfterGeneration(gen, run, render, history, open, call)

\* lines 242-274: the try block of ask
TryBlock(gen, run, render, history, open, call) ==
    IF ~gen.ok
    THEN [history |-> history, figs |-> open, exc |-> gen.err,
          last |-> [call EXCEPT !.gen_failed = TRUE, !.error = gen.err]]
    ELSE AfterGeneration(gen, run, render, history, open, call)

\* ask without its except clause: the exception leaves ask
ExceptHandlerReraises(r) == r

\* lines 275-281: except Exception as e
ExceptHandler(r) ==
    IF r.exc = None THEN r
    ELSE [r EXCEPT !.exc = None,
                   !.last = [@ EXCEPT !.path = "error",
                                      !.text = <<ErrorPrefix, r.exc>>,
                                      !.visualization = None]]

\* ask appending the user's turn only once the generation call has returned:
\* the request carries the query as an extra message
AskWithDataAppendsLate(query, rel, gen, run, render, history, open) ==
    LET asked == WithUser(history, query)
        relevant_columns == IdentifyRelevantColumns(columns, rel)
        data_summary ==
            PrepareDataSummary(relevant_columns, df, numeric_columns,
                               categorical_columns, datetime_columns)
        messages == Messages(SystemPrompt(query, data_summary), asked)
        call == [NoCall EXCEPT
                    !.query = query, !.messages = messages,
                    !.relevant_columns = relevant_columns,
                    !.rel_failed = ~rel.ok, !.relevance = rel.content,
                    !.events = [i \in 1..RelevanceCalls(columns) |->
                                    "relevance_call"]
                        \o <<"data_summary", "generation_call",
                              "append_user">>]
        r == ExceptHandler(TryBlock(gen, run, render, asked, open, call))
    IN  [history |-> IF gen.ok THEN r.history ELSE history, figs |-> r.figs,
         last |-> [r.last EXCEPT !.exc = r.exc]]

\* SurveyChatbot.ask, past the early return
AskWithData(query, rel, gen, run, render, history, open) ==
    LET asked == WithUser(history, query)
        relevant_columns == IdentifyRelevantColumns(columns, rel)
        data_summary ==
            PrepareDataSummary(relevant_columns, df, numeric_columns,
                               categorical_columns, datetime_columns)
        messages == Messages(SystemPrompt(query, data_summary), asked)
        call == [NoCall EXCEPT
                    !.query = query, !.messages = messages,
                    !.relevant_columns = relevant_columns,
                    !.rel_failed = ~rel.ok, !.relevance = rel.content,
                    !.events = <<"append_user">>
                        \o [i \in 1..RelevanceCalls(columns) |->
                                "relevance_call"]
                        \o <<"data_summary", "generation_call">>]
        r == ExceptHandler(TryBlock(gen, run, render, asked, open, call))
    IN  [history |-> r.history, figs |-> r.figs,
         last |-> [r.last EXCEPT !.exc = r.exc]]

\* ask storing the relevant columns it selected as the chatbot's columns
AskKeepsRelevantColumns(query, rel, gen, run, render) ==
    /\ Len(figs) < MaxFigs
    /\ IF NoData(columns, df)
       THEN /\ last' = [NoCall EXCEPT !.query = query, !.path = "no_data",
                                      !.text = NoDataMessage]
            /\ UNCHANGED <<conversation_history, figs, columns>>
       ELSE LET r == AskWithData(query, rel, gen, run, render,
                                 conversation_history, figs)
            IN  /\ conversation_history' = r.history
                /\ figs' = r.figs
                /\ last' = r.last
                /\ columns' = r.last.relevant_columns
    /\ UNCHANGED <<df, column_types, numeric_columns, categorical_columns,
                   datetime_columns, text_columns>>

\* SurveyChatbot.ask
Ask(query, rel, gen, run, render) ==
    /\ Len(figs) < MaxFigs
    /\ IF NoData(columns, df)
       THEN /\ last' = [NoCall EXCEPT !.query = query, !.path = "no_data",
                                      !.text = NoDataMessage]
            /\ UNCHANGED <<conversation_history, figs>>
       ELSE LET r == AskWithData(query, rel, gen, run, render,
                                 conversation_history, figs)
            IN  /\ conversation_history' = r.history
                /\ figs' = r.figs
                /\ last' = r.last
    /\ UNCHANGED <<df, profile>>

\* SurveyChatbot.clear_conversation
ClearConversation ==
    /\ conversation_history' = <<>>
    /\ UNCHANGED <<df, profile, figs, last, ui>>

-----------------------------------------------------------------------------
(* The chat store.  A document of the chats table is [id, name, messages,  *)
(* created_at, updated_at].  Table.search keeps its result, the documents  *)
(* themselves, under the query until the next write to the table; a list   *)
(* taken from such a document is the list a later search of the same id    *)
(* hands out.  The operators below take and return the store together with *)
(* the session's message list: [table, cache, clock, uuids, messages,      *)
(* messages_of].                                                           *)

\* content[:30]
NameLimit == 30

EmptyCache == [i \in {} |-> <<>>]

\* the store and the session's message list, as they are
Heap ==
    [table |-> chats_table, cache |-> query_cache, clock |-> clock,
     uuids |-> uuids, messages |-> session_state.messages,
     messages_of |-> messages_of]

\* the ids of the documents of table
ChatIds(table) == {table[i].id : i \in 1..Len(table)}

\* the documents of table whose id is chat_id
Matching(table, chat_id) ==
    LET Test(doc) == doc.id = chat_id IN SelectSeq(table, Test)

\* self.chats_table.search(Chat.id == chat_id)
Search(h, chat_id) ==
    IF chat_id \in DOMAIN h.cache
    THEN [docs |-> h.cache[chat_id], h |-> h]
    ELSE [docs |-> Matching(h.table, chat_id),
          h |-> [h EXCEPT !.cache =
                    (chat_id :> Matching(h.table, chat_id)) @@ h.cache]]

\* ChatHistoryManager.get_chat
GetChat(h, chat_id) ==
    LET result == Search(h, chat_id)
    IN  [found |-> result.docs # <<>>, docs |-> result.docs, h |-> result.h]

RECURSIVE SortedNewestFirst(_)
\* sorted(chats, key=updated_at, reverse=True): equal keys keep their order
SortedNewestFirst(chats) ==
    IF chats = <<>> THEN <<>>
    ELSE LET i == CHOOSE i \in 1..Len(chats) :
                    /\ \A j \in 1..Len(chats) :
                            chats[j].updated_at <= chats[i].updated_at
                    /\ \A j \in 1..(i - 1) :
                            chats[j].updated_at < chats[i].updated_at
         IN  <<chats[i]>>
                \o SortedNewestFirst(SubSeq(chats, 1, i - 1)
                                        \o SubSeq(chats, i + 1, Len(chats)))

\* ChatHistoryManager.get_all_chats: documents read afresh from the table
GetAllChats(h) == SortedNewestFirst(h.table)

\* ChatHistoryManager.create_new_chat, with no name given
CreateChat(h) ==
    LET chat_id == h.uuids + 1
        timestamp == h.clock
        chat_data == [id |-> chat_id, name |-> <<"Chat">>, messages |-> <<>>,
                      created_at |-> timestamp, updated_at |-> timestamp]
    IN  [id |-> chat_id,
         h |-> [h EXCEPT !.table = Append(h.table, chat_data),
                         !.cache = EmptyCache, !.messages_of = 0,
                         !.clock = h.clock + 1, !.uuids = chat_id]]

\* a document once update_data has been written over it
Updated(doc, fields, now) ==
    [f \in DOMAIN doc |->
        IF f = "updated_at" THEN now
        ELSE IF f \in DOMAIN fields THEN fields[f] ELSE doc[f]]

\* update_chat writing to the table although the chat was not found
UpdateChatUnchecked(h, chat_id, fields) ==
    [ok |-> TRUE,
     h |-> [GetChat(h, chat_id).h EXCEPT
                !.table = IF chat_id \in ChatIds(h.table)
                          THEN [i \in 1..Len(h.table) |->
                                    IF h.table[i].id = chat_id
                                    THEN Updated(h.table[i], fields, h.clock)
                                    ELSE h.table[i]]
                          ELSE Append(h.table,
                                      Updated([id |-> chat_id,
                                               name |-> <<"Chat">>,
                                               messages |-> <<>>,
                                               created_at |-> h.clock,
                                               updated_at |-> h.clock],
                                              fields, h.clock)),
                !.cache = EmptyCache, !.messages_of = 0,
                !.clock = h.clock + 1]]

\* ChatHistoryManager.update_chat; fields holds the messages and the name
\* that are given
UpdateChat(h, chat_id, fields) ==
    LET chat == GetChat(h, chat_id)
    IN  IF ~chat.found THEN [ok |-> FALSE, h |-> chat.h]
        ELSE [ok |-> TRUE,
              h |-> [chat.h EXCEPT
                        !.table = [i \in 1..Len(h.table) |->
                                    IF h.table[i].id = chat_id
                                    THEN Updated(h.table[i], fields, h.clock)
                                    ELSE h.table[i]],
                        !.cache = EmptyCache, !.messages_of = 0,
                        !.clock = h.clock + 1]]

\* ChatHistoryManager.delete_chat
RemoveChat(h, chat_id) ==
    LET Keep(doc) == doc.id # chat_id
    IN  [h EXCEPT !.table = SelectSeq(h.table, Keep),
                  !.cache = EmptyCache, !.messages_of = 0]

\* the message add_message_to_chat creates
Message(role, content, visualization, timestamp) ==
    IF visualization # None
    THEN [role |-> role, content |-> content, timestamp |-> timestamp,
          visualization |-> visualization]
    ELSE [role |-> role, content |-> content, timestamp |-> timestamp]

\* content[:30] + ('...' if len(content) > 30 else '')
ChatName(content) ==
    IF Len(content) > NameLimit
    THEN SubSeq(content, 1, NameLimit) \o <<"...">>
    ELSE content

\* list.append on the list of the document found by the search of chat_id:
\* the cached document holds it, and so does the session when its list is
\* that list
AppendToDocument(h, chat_id, message) ==
    LET doc == h.cache[chat_id][1]
        messages == Append(doc.messages, message)
    IN  [h EXCEPT !.cache[chat_id] = <<[doc EXCEPT !.messages = messages]>>,
                  !.messages = IF h.messages_of = chat_id
                               THEN messages ELSE h.messages]

\* ChatHistoryManager.add_message_to_chat
AddMessageToChat(h, chat_id, role, content, visualization) ==
    LET chat == GetChat(h, chat_id)
        message == Message(role, content, visualization, chat.h.clock)
        appended == AppendToDocument([chat.h EXCEPT !.clock = chat.h.clock + 1],
                                     chat_id, message)
        messages == appended.cache[chat_id][1].messages
    IN  IF ~chat.found THEN [ok |-> FALSE, h |-> chat.h]
        ELSE IF Len(messages) = 1 /\ role = "user"
        THEN UpdateChat(appended, chat_id,
                        [messages |-> messages, name |-> ChatName(content)])
        ELSE UpdateChat(appended, chat_id, [messages |-> messages])

-----------------------------------------------------------------------------
(* The dashboard: the session state and the operations of the sidebar and  *)
(* of the message box.                                                     *)

\* the store and the session's list become those of h
Commit(h) ==
    /\ chats_table' = h.table
    /\ query_cache' = h.cache
    /\ clock' = h.clock
    /\ uuids' = h.uuids
    /\ messages_of' = h.messages_of

\* st.session_state.messages.append(entry): the list may be the one of a
\* cached document
SessionAppend(h, entry) ==
    [h EXCEPT !.messages = Append(h.messages, entry),
              !.cache = IF h.messages_of = 0 THEN h.cache
                        ELSE [h.cache EXCEPT ![h.messages_of] =
                                <<[h.cache[h.messages_of][1] EXCEPT
                                    !.messages = Append(h.messages, entry)]>>]]

\* lines 22-45: the session state of a new session over the stored table
SessionStart(table, now) ==
    LET h == [table |-> table, cache |-> EmptyCache, clock |-> now,
              uuids |-> Len(table), messages |-> <<>>, messages_of |-> 0]
        chats == GetAllChats(h)
        made == CreateChat(h)
        start == IF chats # <<>> THEN h ELSE made.h
    IN  /\ chats_table = start.table
        /\ query_cache = start.cache
        /\ clock = start.clock
        /\ uuids = start.uuids
        /\ messages_of = 0
        /\ returned = [method |-> "none", id |-> 0, ok |-> FALSE]
        /\ session_state =
            [current_chat_id |-> IF chats # <<>> THEN chats[1].id ELSE made.id,
             messages |-> IF chats # <<>> THEN chats[1].messages ELSE <<>>,
             process_message |-> FALSE,
             current_message |-> <<>>,
             input_field |-> <<>>]

\* set_message_to_process, once text has been typed into the input box
SetMessageToProcess(text) ==
    /\ ~session_state.process_message
    /\ session_state' =
        IF text # <<>> /\ Strip(text) # <<>>
        THEN [session_state EXCEPT !.current_message = text,
                                   !.process_message = TRUE,
                                   !.input_field = <<>>]
        ELSE [session_state EXCEPT !.input_field = text]
    /\ UNCHANGED <<chatbot, chats_table, query_cache, clock, uuids,
                   messages_of, returned>>

\* create_new_chat also calling clear_conversation on the chatbot
CreateNewChatClearsConversation ==
    /\ uuids < MaxChats
    /\ clock < MaxClock
    /\ LET made == CreateChat(Heap)
       IN  /\ Commit(made.h)
           /\ session_state' =
                [session_state EXCEPT !.current_chat_id = made.id,
                                      !.messages = <<>>]
    /\ conversation_history' = <<>>
    /\ UNCHANGED <<df, profile, figs, last, returned>>

\* create_new_chat of the dashboard
CreateNewChat ==
    /\ uuids < MaxChats
    /\ clock < MaxClock
    /\ LET made == CreateChat(Heap)
       IN  /\ Commit(made.h)
           /\ session_state' =
                [session_state EXCEPT !.current_chat_id = made.id,
                                      !.messages = <<>>]
    /\ UNCHANGED <<chatbot, returned>>

\* switch_to_chat: the session's list is the list of the document found
SwitchToChat(chat_id) ==
    LET chat == GetChat(Heap, chat_id)
    IN  /\ chat.found
        /\ Commit([chat.h EXCEPT !.messages_of = chat_id])
        /\ session_state' =
            [session_state EXCEPT !.current_chat_id = chat_id,
                                  !.messages = chat.docs[1].messages]
        /\ UNCHANGED <<chatbot, returned>>

\* delete_chat of the dashboard without its switch to another chat
DeleteChatKeepsCurrent(chat_id) ==
    /\ Commit(RemoveChat(Heap, chat_id))
    /\ UNCHANGED <<chatbot, session_state, returned>>

\* delete_chat of the dashboard
DeleteChat(chat_id) ==
    LET removed == RemoveChat(Heap, chat_id)
        chats == GetAllChats(removed)
        made == CreateChat(removed)
    IN  /\ IF chat_id # session_state.current_chat_id
           THEN /\ Commit(removed)
                /\ UNCHANGED session_state
           ELSE IF chats # <<>>
           THEN /\ Commit(removed)
                /\ session_state' =
                    [session_state EXCEPT !.current_chat_id = chats[1].id,
                                          !.messages = chats[1].messages]
           ELSE /\ uuids < MaxChats
                /\ clock < MaxClock
                /\ Commit(made.h)
                /\ session_state' =
                    [session_state EXCEPT !.current_chat_id = made.id,
                                          !.messages = <<>>]
        /\ UNCHANGED <<chatbot, returned>>

\* lines 420-457: the message is logged, saved, asked and answered
ProcessMessage(rel, gen) ==
    /\ session_state.process_message
    /\ clock + 4 <= MaxClock
    /\ Ask(session_state.current_message, rel, gen, <<>>, "ok")
    /\ LET user_message == session_state.current_message
           chat_id == session_state.current_chat_id
           logged == SessionAppend(Heap, [role |-> "user",
                                          content |-> user_message])
           saved == AddMessageToChat(logged, chat_id, "user", user_message,
                                     None)
           answered == SessionAppend(saved.h,
                                     [role |-> "assistant",
                                      content |-> last'.text,
                                      visualization |-> last'.visualization])
           persisted == AddMessageToChat(answered, chat_id, "assistant",
                                         last'.text, last'.visualization)
       IN  /\ Commit(persisted.h)
           /\ session_state' =
                [session_state EXCEPT !.messages = persisted.h.messages,
                                      !.process_message = FALSE,
                                      !.current_message = <<>>]
    /\ UNCHANGED returned

-----------------------------------------------------------------------------
(* The inputs.                                                             *)

Queries ==
    { <<"a", "v", "g", "?">>,
      <<"S", "h", "o", "w", " ", "a", " ", "C", "h", "a", "r", "t">> }

RelOutcomes ==
    { [ok |-> FALSE, content |-> <<>>],
      [ok |-> TRUE, content |-> <<"None">>],
      [ok |-> TRUE,
       content |-> <<"age_group", ",", " ", "satisfaction", ",", " ",
                     "bogus_col">>] }

Failed == [ok |-> FALSE, content |-> <<>>, err |-> "Connection error."]
Completed(content) == [ok |-> TRUE, content |-> content, err |-> ""]

PlainCompletion == <<"x", "\n">>
CodeCompletion == <<"x", "\n", START, "\n", "x", "\n", END>>

\* message.content is None: response_text = None.strip() raises
Malformed ==
    [ok |-> FALSE, content |-> <<>>,
     err |-> "'NoneType' object has no attribute 'strip'"]

GenOutcomes ==
    {Failed, Malformed, Completed(PlainCompletion), Completed(CodeCompletion)}

Runs == { <<>>, <<"figure">>, <<"raise">>, <<"figure", "raise">>, <<"close">> }
Renders == {"ok", "raise"}

\* generated code that also writes to the chatbot it runs in
SandboxRuns ==
    Runs \cup { <<"history.append">>, <<"figure", "history.append">>,
                <<"history.append", "raise">> }

\* what is typed into the input box
Inputs == Queries \cup { <<>>, <<" ">> }

\* the outcomes of the generation call of a processed message
UIGenOutcomes == {Failed, Completed(PlainCompletion), Completed(CodeCompletion)}

\* tables an earlier session has left: none, one chat that holds a question
\* and its answer, and that chat with a newer, empty one updated before it
StoredChat ==
    [id |-> 1, name |-> <<"a", "v", "g", "?">>,
     messages |-> <<Message("user", <<"a", "v", "g", "?">>, None, 2),
                    Message("assistant", <<"x">>, None, 4)>>,
     created_at |-> 1, updated_at |-> 5]

StoredEmptyChat ==
    [id |-> 2, name |-> <<"Chat">>, messages |-> <<>>,
     created_at |-> 3, updated_at |-> 3]

StoredTables == { <<>>, <<StoredChat>>, <<StoredChat, StoredEmptyChat>> }

\* the time at which the session over table starts
StoredNow(table) == IF table = <<>> THEN 1 ELSE 6

\* the ids the store methods are called with: MaxChats + 1 is never given
StoreIds == 1..(MaxChats + 1)

EmptyFields == [f \in {} |-> <<>>]

\* the messages and the name update_chat is given
UpdateFields ==
    {EmptyFields, [name |-> <<"n">>], [messages |-> <<>>],
     [messages |-> <<>>, name |-> <<"n">>]}

\* a question of 31 characters
LongQuestion == [i \in 1..(NameLimit + 1) |-> "q"]

\* the messages add_message_to_chat is given
StoreMessages ==
    { [role |-> "user", content |-> <<"a", "v", "g", "?">>,
       visualization |-> None],
      [role |-> "user", content |-> LongQuestion, visualization |-> None],
      [role |-> "assistant", content |-> <<"x">>, visualization |-> "png"] }

\* the code runs, and is rendered, only when the completion holds a code block
HasCode(gen) == gen.ok /\ ParseResponse(Strip(gen.content)).has_code
RunsOf(gen) == IF HasCode(gen) THEN Runs ELSE {<<>>}
RendersOf(gen) == IF HasCode(gen) THEN Renders ELSE {"ok"}

\* the pieces the queries of SpecMode are made of
Words ==
    { <<"c", "h", "a", "r", "t">>, <<"G", "r", "a", "p", "h">>,
      <<"P", "L", "O", "T">>, <<"v", "i", "s", "u", "a", "l">>,
      <<"S", "h", "o", "w", " ">>, <<"m", "e">>,
      <<"d", "i", "s", "p", "l", "a", "y">>,
      <<"h", "i", "s", "t", "o", "g", "r", "a", "m">>, <<"b", "a">>, <<"r">>,
      <<"P", "i", "e">>, <<"a", "v", "g">>, <<" ">>, <<"?">> }

RECURSIVE Flatten(_)
\* the concatenation of a sequence of strings
Flatten(ws) == IF ws = <<>> THEN <<>> ELSE Head(ws) \o Flatten(Tail(ws))

\* every query made of at most n words
QueriesOf(n) == {Flatten(ws) : ws \in UNION {[1..k -> Words] : k \in 0..n}}

\* the relevance response of the specification's example
ExampleRelevance ==
    <<"age_group", ",", " ", "satisfaction", ",", " ", "bogus_col">>

\* every relevance response of at most n tokens, and the example
RelAlphabet ==
    {"age_group", "satisfaction", "bogus_col", ",", " ", "None", "NONE"}
RelResponses(n) ==
    UNION {[1..k -> RelAlphabet] : k \in 0..n} \cup {ExampleRelevance}

\* every completion of at most n tokens
Alphabet == {START, END, "x", " "}
Strings(n) == UNION {[1..k -> Alphabet] : k \in 0..n}

-----------------------------------------------------------------------------
(* The specifications.                                                     *)

Init ==
    /\ df \in Datasets
    /\ columns = AnalyzeSurveyStructure(df).columns
    /\ column_types = AnalyzeSurveyStructure(df).column_types
    /\ numeric_columns = AnalyzeSurveyStructure(df).numeric_columns
    /\ categorical_columns = AnalyzeSurveyStructure(df).categorical_columns
    /\ datetime_columns = AnalyzeSurveyStructure(df).datetime_columns
    /\ text_columns = AnalyzeSurveyStructure(df).text_columns
    /\ conversation_history = <<>>
    /\ figs = <<>>
    /\ last = NoCall
    /\ SessionStart(<<>>, 1)

\* Short conversations, every outcome of every stage.
AskAny ==
    /\ Len(conversation_history) < MaxTurns
    /\ \E query \in Queries, rel \in RelOutcomes, gen \in GenOutcomes :
        \E run \in RunsOf(gen), render \in RendersOf(gen) :
            Ask(query, rel, gen, run, render)
    /\ UNCHANGED ui

Next == AskAny \/ ClearConversation

Spec == Init /\ [][Next]_vars

\* Long conversations: one query, the generated code leaves no figure open.
AskLong ==
    /\ Len(conversation_history) <= MaxLongTurns
    /\ \E gen \in GenOutcomes :
            Ask(<<"a", "v", "g", "?">>, [ok |-> TRUE, content |-> <<"None">>],
                gen, <<>>, "ok")
    /\ UNCHANGED ui

NextWindow == AskLong \/ ClearConversation

SpecWindow == Init /\ [][NextWindow]_vars

\* One ask on an empty history, every completion of at most MaxLen tokens.
AskParse ==
    /\ conversation_history = <<>>
    /\ last = NoCall
    /\ \E content \in Strings(MaxLen), run \in {<<>>, <<"raise">>} :
            Ask(<<"S", "h", "o", "w", " ", "a", " ", "C", "h", "a", "r", "t">>,
                [ok |-> TRUE, content |-> <<"None">>],
                Completed(content), run, "ok")
    /\ UNCHANGED ui

NextParse == AskParse

SpecParse == Init /\ [][NextParse]_vars

\* One ask on an empty history, every query of at most MaxWords words.
AskMode ==
    /\ conversation_history = <<>>
    /\ last = NoCall
    /\ \E query \in QueriesOf(MaxWords) :
            Ask(query, [ok |-> TRUE, content |-> <<"None">>],
                Completed(PlainCompletion), <<>>, "ok")
    /\ UNCHANGED ui

NextMode == AskMode

SpecMode == Init /\ [][NextMode]_vars

\* One ask on an empty history, every relevance response of at most MaxRelLen
\* tokens.
AskRelevance ==
    /\ conversation_history = <<>>
    /\ last = NoCall
    /\ \E content \in RelResponses(MaxRelLen) :
            Ask(<<"a", "v", "g", "?">>, [ok |-> TRUE, content |-> content],
                Completed(PlainCompletion), <<>>, "ok")
    /\ UNCHANGED ui

NextRelevance == AskRelevance

SpecRelevance == Init /\ [][NextRelevance]_vars

\* Construction on every dataset of at most MaxRows rows, then one ask.
InitProfile ==
    /\ df \in ProfileDatasets(MaxRows)
    /\ columns = AnalyzeSurveyStructure(df).columns
    /\ column_types = AnalyzeSurveyStructure(df).column_types
    /\ numeric_columns = AnalyzeSurveyStructure(df).numeric_columns
    /\ categorical_columns = AnalyzeSurveyStructure(df).categorical_columns
    /\ datetime_columns = AnalyzeSurveyStructure(df).datetime_columns
    /\ text_columns = AnalyzeSurveyStructure(df).text_columns
    /\ conversation_history = <<>>
    /\ figs = <<>>
    /\ last = NoCall
    /\ SessionStart(<<>>, 1)

AskProfile ==
    /\ last = NoCall
    /\ Ask(<<"a", "v", "g", "?">>,
           [ok |-> TRUE, content |-> ExampleRelevance],
           Completed(PlainCompletion), <<>>, "ok")
    /\ UNCHANGED ui

NextProfile == AskProfile

SpecProfile == InitProfile /\ [][NextProfile]_vars

\* Short conversations whose completions hold a code block, the generated
\* code also reaching for the names it finds bound.
AskSandbox ==
    /\ Len(conversation_history) < MaxTurns
    /\ \E query \in Queries, run \in SandboxRuns, render \in Renders :
            Ask(query, [ok |-> TRUE, content |-> <<"None">>],
                Completed(CodeCompletion), run, render)
    /\ UNCHANGED ui

NextSandbox == AskSandbox \/ ClearConversation

SpecSandbox == Init /\ [][NextSandbox]_vars

\* A session of the dashboard over a stored table: chats are created,
\* switched to and deleted, messages are typed and processed.
InitUI ==
    /\ df \in Datasets
    /\ columns = AnalyzeSurveyStructure(df).columns
    /\ column_types = AnalyzeSurveyStructure(df).column_types
    /\ numeric_columns = AnalyzeSurveyStructure(df).numeric_columns
    /\ categorical_columns = AnalyzeSurveyStructure(df).categorical_columns
    /\ datetime_columns = AnalyzeSurveyStructure(df).datetime_columns
    /\ text_columns = AnalyzeSurveyStructure(df).text_columns
    /\ conversation_history = <<>>
    /\ figs = <<>>
    /\ last = NoCall
    /\ \E table \in StoredTables : SessionStart(table, StoredNow(table))

Type == \E text \in Inputs : SetMessageToProcess(text)

Switch == \E chat_id \in ChatIds(chats_table) : SwitchToChat(chat_id)

Delete == \E chat_id \in ChatIds(chats_table) : DeleteChat(chat_id)

Process ==
    \E gen \in UIGenOutcomes :
        ProcessMessage([ok |-> TRUE, content |-> <<"None">>], gen)

NextUI == Type \/ CreateNewChat \/ Switch \/ Delete \/ Process

SpecUI == InitUI /\ [][NextUI]_vars

\* The methods of the chat store, called with ids it holds and ids it does
\* not hold.
InitStore == Init /\ df = SurveyDf

StoreCreate ==
    /\ uuids < MaxChats
    /\ clock < MaxStoreClock
    /\ Commit(CreateChat(Heap).h)
    /\ returned' = [method |-> "create_new_chat", id |-> uuids + 1,
                    ok |-> TRUE]
    /\ UNCHANGED <<chatbot, session_state>>

StoreGet ==
    \E chat_id \in StoreIds :
        /\ Commit(GetChat(Heap, chat_id).h)
        /\ returned' = [method |-> "get_chat", id |-> chat_id,
                        ok |-> GetChat(Heap, chat_id).found]
        /\ UNCHANGED <<chatbot, session_state>>

StoreUpdate ==
    \E chat_id \in StoreIds, fields \in UpdateFields :
        /\ chat_id \in ChatIds(chats_table) => clock < MaxStoreClock
        /\ Commit(UpdateChat(Heap, chat_id, fields).h)
        /\ returned' = [method |-> "update_chat", id |-> chat_id,
                        ok |-> UpdateChat(Heap, chat_id, fields).ok]
        /\ UNCHANGED <<chatbot, session_state>>

StoreAdd ==
    \E chat_id \in StoreIds, m \in StoreMessages :
        /\ chat_id \in ChatIds(chats_table) => clock + 1 < MaxStoreClock
        /\ Commit(AddMessageToChat(Heap, chat_id, m.role, m.content,
                                   m.visualization).h)
        /\ returned' =
            [method |-> "add_message_to_chat", id |-> chat_id,
             ok |-> AddMessageToChat(Heap, chat_id, m.role, m.content,
                                     m.visualization).ok]
        /\ UNCHANGED <<chatbot, session_state>>

StoreDelete ==
    \E chat_id \in StoreIds :
        /\ Commit(RemoveChat(Heap, chat_id))
        /\ returned' = [method |-> "delete_chat", id |-> chat_id,
                        ok |-> chat_id \in ChatIds(chats_table)]
        /\ UNCHANGED <<chatbot, session_state>>

NextStore ==
    StoreCreate \/ StoreGet \/ StoreUpdate \/ StoreAdd \/ StoreDelete

SpecStore == InitStore /\ [][NextStore]_vars

-----------------------------------------------------------------------------
(* The properties.                                                         *)

IsPrefix(s, t) == Len(s) <= Len(t) /\ SubSeq(t, 1, Len(s)) = s

\* the context window of the last generation request
ForwardedWindow == Tail(last.messages)

\* some start marker of c comes before some end marker of c
StartBeforeEnd(c) ==
    \E i \in 1..Len(c), j \in 1..Len(c) : i < j /\ c[i] = START /\ c[j] = END

\* the text of c before its first start marker
BeforeStart(c) == SubSeq(c, 1, Find(c, START) - 1)

\* the text of c after its first start marker
AfterStart(c) == SubSeq(c, Find(c, START) + 1, Len(c))

\* the text of c between its first start marker and the next end marker
BetweenMarkers(c) == SubSeq(AfterStart(c), 1, Find(AfterStart(c), END) - 1)

\* the text of c between its first start marker and the next marker of
\* either kind
ToNextMarker(c) ==
    LET rest == AfterStart(c)
        stop == CHOOSE i \in 1..Len(rest) :
                    /\ rest[i] \in {START, END}
                    /\ \A j \in 1..(i - 1) : rest[j] \notin {START, END}
    IN  SubSeq(rest, 1, stop - 1)

\* the generated code of the last ask raised in the sandbox
CodeRaised == last.sandbox_runs = 1 /\ Contains(last.run, "raise")

\* C1: the context window forwarded to the generation call never holds more
\* than 10 turns, and a call of ask only appends to the full history: the
\* history before the call is a prefix of the history after it.
C1_WindowBounded ==
    /\ [](last.messages # <<>> => Len(ForwardedWindow) <= WindowSize)
    /\ [][AskLong => IsPrefix(conversation_history, conversation_history')]_vars

\* C1, its case: a request was built from a history longer than the window.
C1_Witness ==
    /\ Len(conversation_history) > WindowSize
    /\ last.messages # <<>>
    /\ Len(ForwardedWindow) = WindowSize
    /\ ForwardedWindow[WindowSize] = Turn("user", last.query)

\* C2: an ask whose generation call fails appends the user's turn and nothing
\* else: the history after it is the history before it plus that one turn.
\* (A step that is not clear_conversation is a call of ask.)
C2_FailedGenerationAppendsOneTurn ==
    [][(~ClearConversation /\ last'.gen_failed)
        => conversation_history'
            = Append(conversation_history, Turn("user", last'.query))]_vars

\* C2, its case: a generation call failed on a history that already held turns.
C2_Witness ==
    /\ last.gen_failed
    /\ Len(conversation_history) >= 2
    /\ conversation_history[Len(conversation_history)].role = "user"

\* C3 (as claimed): no assistant turn of the history holds a code block, that
\* is, both markers: the stored content is the narrative, never the raw
\* completion.
C3_AssistantTurnStripped ==
    \A i \in 1..Len(conversation_history) :
        conversation_history[i].role = "assistant"
            => ~(/\ Contains(conversation_history[i].content, START)
                 /\ Contains(conversation_history[i].content, END))

\* C4 (as claimed): no canvas created by the sandbox is open once ask has
\* returned, whether the generated code ran to its end or raised.
C4_CanvasClosed == ~Contains(figs, "sandbox")

C6_NarrativeUnchanged ==
    CodeRaised => last.text = Strip(BeforeStart(last.completion))

\* C7: on a chatbot with an empty dataset or no columns every ask returns the
\* fixed message and no visualization, issues neither completion call and
\* does not run the sandbox.
C7_NoDataShortCircuit ==
    (last # NoCall /\ (DfEmpty(df) \/ columns = <<>>))
        => /\ last.text = NoDataMessage
           /\ last.visualization = None
           /\ last.events = <<>>
           /\ last.messages = <<>>
           /\ last.sandbox_runs = 0

\* C7, its case: a query with a visualization keyword on an empty dataset.
C7_Witness ==
    /\ DfEmpty(df)
    /\ IsVisualizationRequest(last.query)
    /\ last.path = "no_data"

\* C8 (as claimed): a code block is extracted and run exactly when some start
\* marker of the completion comes before some end marker.
C8_CodeIffMarkersInOrder ==
    last.completion # <<>>
        => (last.sandbox_runs = 1 <=> StartBeforeEnd(last.completion))

\* C9 (as claimed): a completion with no start marker, or with a start marker
\* and no end marker, is returned whole as the text, with no visualization,
\* no code and no run of the sandbox.
C9_NoCodeReturnsCompletion ==
    (/\ last.completion # <<>>
     /\ (~Contains(last.completion, START) \/ ~Contains(last.completion, END)))
        => /\ last.exc = None
           /\ last.sandbox_runs = 0
           /\ last.code = <<>>
           /\ last.visualization = None
           /\ last.text = last.completion

\* C9 (amended): a completion with no start marker, or with a start marker
\* and no end marker, is returned as the text with its surrounding
\* whitespace trimmed, with no visualization, no code and no run of the
\* sandbox.
C9_NoCodeReturnsTrimmedCompletion ==
    (/\ last.completion # <<>>
     /\ (~Contains(last.completion, START) \/ ~Contains(last.completion, END)))
        => /\ last.exc = None
           /\ last.sandbox_runs = 0
           /\ last.code = <<>>
           /\ last.visualization = None
           /\ last.text = Strip(last.completion)

\* C9, its case: a start marker with no end marker, and text around it.
C9_Witness ==
    /\ Contains(last.completion, START)
    /\ ~Contains(last.completion, END)
    /\ Contains(last.completion, "x")
    /\ last.path = "no_code"

\* C10 (as claimed): when a start marker is followed by an end marker, the
\* narrative is the trimmed text before the first start marker, the code is
\* the trimmed text between that marker and the next end marker, and neither
\* holds a marker.
C10_ExactSplit ==
    StartBeforeEnd(last.completion)
        => /\ last.explanation = Strip(BeforeStart(last.completion))
           /\ last.code = Strip(BetweenMarkers(last.completion))
           /\ ~Contains(last.explanation, START)
           /\ ~Contains(last.explanation, END)
           /\ ~Contains(last.code, START)
           /\ ~Contains(last.code, END)

\* C10 (amended): when a start marker is followed by an end marker, the
\* narrative is the trimmed text before the first start marker and the code
\* is the trimmed text between that marker and the next marker of either
\* kind; the narrative holds no start marker and the code holds no marker.
C10_SplitAtNextMarker ==
    StartBeforeEnd(last.completion)
        => /\ last.sandbox_runs = 1
           /\ last.explanation = Strip(BeforeStart(last.completion))
           /\ last.code = Strip(ToNextMarker(last.completion))
           /\ ~Contains(last.explanation, START)
           /\ ~Contains(last.code, START)
           /\ ~Contains(last.code, END)

\* C10, its case: narrative, then a code block with whitespace around both.
C10_Witness ==
    /\ StartBeforeEnd(last.completion)
    /\ last.explanation = <<"x">>
    /\ last.code = <<"x">>
    /\ Contains(last.completion, " ")

\* C11: a response carries a visualization only when a code block was
\* extracted from the completion and the sandbox ran it to its end and
\* rendered it; on the no-data path, after a failed generation call, without
\* a code block and after a failure in the sandbox there is none.
C11_VisualizationOnlyOnSuccess ==
    /\ last.visualization # None
        => /\ last.sandbox_runs = 1
           /\ Contains(Strip(last.completion), START)
           /\ Contains(Strip(last.completion), END)
           /\ ~Contains(last.run, "raise")
           /\ last.render = "ok"
    /\ (\/ last.path = "no_data"
        \/ last.gen_failed
        \/ last.path = "no_code"
        \/ CodeRaised
        \/ (last.sandbox_runs = 1 /\ last.render = "raise"))
        => last.visualization = None

\* C11, its case: an ask returned an image, and figures leaked by earlier
\* failures are open.
C11_Witness ==
    /\ last.visualization = "png"
    /\ last.sandbox_runs = 1
    /\ figs # <<>>

\* the keywords of the claim C12
C12_Keywords ==
    { <<"c", "h", "a", "r", "t">>, <<"g", "r", "a", "p", "h">>,
      <<"p", "l", "o", "t">>, <<"v", "i", "s", "u", "a", "l">>,
      <<"s", "h", "o", "w", " ", "m", "e">>,
      <<"d", "i", "s", "p", "l", "a", "y">>,
      <<"h", "i", "s", "t", "o", "g", "r", "a", "m">>, <<"b", "a", "r">>,
      <<"p", "i", "e">> }

\* the mode of the system prompt of the last generation request
Mode == last.messages[1].content[1]

\* C12: the generation request is in visualization mode exactly when the
\* lower-cased query holds one of the nine keywords as a substring, and in
\* narrative mode otherwise.
C12_ModeIffKeyword ==
    last.messages # <<>>
        => /\ Mode \in {"visualization", "narrative"}
           /\ Mode = "visualization"
                <=> \E k \in C12_Keywords : IsSubstring(k, Lower(last.query))

\* C12, its case: a keyword written with capitals selects visualization mode.
C12_Witness ==
    /\ last.messages # <<>>
    /\ Mode = "visualization"
    /\ last.query # Lower(last.query)
    /\ ~IsVisualizationRequestCaseSensitive(last.query)

\* the end of the comma-separated piece of c that starts after position b
C13_PieceEnd(c, b) ==
    IF \E i \in (b + 1)..Len(c) : c[i] = ","
    THEN CHOOSE i \in (b + 1)..Len(c) :
            c[i] = "," /\ \A j \in (b + 1)..(i - 1) : c[j] # ","
    ELSE Len(c) + 1

\* the name a piece c[b+1 .. e-1] stands for: its one token, when all the
\* other tokens around it are whitespace
C13_Names(c, b, e) ==
    {c[p] : p \in {q \in (b + 1)..(e - 1) :
                    /\ c[q] \notin Whitespace
                    /\ \A o \in ((b + 1)..(e - 1)) \ {q} : c[o] \in Whitespace}}

RECURSIVE C13_Selected(_, _, _)
\* the known names among the pieces of c after position b, in order
C13_Selected(c, b, known) ==
    IF b > Len(c) THEN <<>>
    ELSE LET e == C13_PieceEnd(c, b)
             names == C13_Names(c, b, e) \cap SeqToSet(known)
         IN  (IF names = {} THEN <<>> ELSE <<CHOOSE n \in names : TRUE>>)
                \o C13_Selected(c, e, known)

\* C13: the selector returns the known column names among the comma-separated,
\* whitespace-trimmed pieces of the response, in the order of the response,
\* and nothing for a response that is "none" in any letter case.
C13_SelectorKeepsKnownColumns ==
    (Contains(last.events, "relevance_call") /\ ~last.rel_failed)
        => /\ last.relevant_columns
                = C13_Selected(last.relevance, 0, columns)
           /\ last.relevance \in {<<"None">>, <<"NONE">>}
                => last.relevant_columns = <<>>

\* C13, its case: the example of the specification, an unknown name dropped.
C13_Witness ==
    /\ last.relevance = ExampleRelevance
    /\ last.relevant_columns = <<"age_group", "satisfaction">>

\* the data summary embedded in the system prompt of the last request
EmbeddedSummary == Tail(last.messages[1].content)

\* C14: when the relevance-selection call fails, the selector returns the
\* empty list and raises nothing, and the same ask goes on to build the
\* general data summary and to issue the generation call.
C14_RelevanceFailureDegrades ==
    last.rel_failed
        => /\ last.relevant_columns = <<>>
           /\ last.exc = None
           /\ EmbeddedSummary = <<"general summary">>
           /\ \E i, j \in 1..Len(last.events) :
                /\ i < j
                /\ last.events[i] = "data_summary"
                /\ last.events[j] = "generation_call"

\* C14, its case: the relevance call failed and the generation call that
\* followed returned an answer.
C14_Witness ==
    /\ last.rel_failed
    /\ ~last.gen_failed
    /\ last.path = "no_code"
    /\ last.text # <<>>

\* C15: when the generation call fails, ask raises nothing: it returns a text
\* that embeds the description of the error and no visualization, and the
\* sandbox is not run.
C15_GenerationFailureReported ==
    last.gen_failed
        => /\ last.exc = None
           /\ last.error # ""
           /\ Contains(last.text, last.error)
           /\ last.visualization = None
           /\ last.sandbox_runs = 0

\* C15, its case: the completion carried no content, after an earlier turn.
C15_Witness ==
    /\ last.gen_failed
    /\ last.error = Malformed.err
    /\ Len(conversation_history) >= 2

\* the first place of the event e in the events of the last ask, or 0
EventAt(e) == Find(last.events, e)

\* C16: in an ask that attempts a model call the user's turn is appended
\* before the relevance call and before the generation call, and it is in
\* the history when ask returns, whatever the two calls did.
C16_UserTurnBeforeCalls ==
    /\ [](last.events # <<>>
            => /\ EventAt("append_user") = 1
               /\ EventAt("relevance_call") > 1
               /\ EventAt("generation_call") > EventAt("relevance_call"))
    /\ [][(~ClearConversation /\ last'.events # <<>>)
            => /\ Len(conversation_history') > Len(conversation_history)
               /\ conversation_history'[Len(conversation_history) + 1]
                    = Turn("user", last'.query)]_vars

\* C16, its case: both model calls failed and the user's turn is the last of
\* the history.
C16_Witness ==
    /\ last.rel_failed
    /\ last.gen_failed
    /\ conversation_history # <<>>
    /\ conversation_history[Len(conversation_history)]
        = Turn("user", last.query)

\* h is the history of Len(h) / 2 successive successful queries: user and
\* assistant turns in alternation
Successful(h) ==
    /\ Len(h) % 2 = 0
    /\ \A i \in 1..Len(h) :
        h[i].role = IF i % 2 = 1 THEN "user" ELSE "assistant"

\* C17: a successful query after n successive successful ones leaves all
\* 2n + 2 turns in the history, in order; and once n >= 5 the context window
\* of the next query is the 10 most recent turns at the time of the call, in
\* their order: the last 9 turns of the 2n and the turn of the query.
C17_WindowIsTenMostRecent ==
    [][(/\ ~ClearConversation
        /\ last'.events # <<>>
        /\ Successful(conversation_history))
        => /\ ~last'.gen_failed
            => conversation_history'
                = conversation_history
                    \o <<Turn("user", last'.query),
                         Turn("assistant", Strip(last'.completion))>>
           /\ Len(conversation_history) >= 10
            => Tail(last'.messages)
                = SubSeq(conversation_history,
                         Len(conversation_history) - 8,
                         Len(conversation_history))
                    \o <<Turn("user", last'.query)>>]_vars

\* C17, its case: six successful queries in a row, the sixth sent with a
\* window that leaves out the first two turns.
C17_Witness ==
    /\ Successful(conversation_history)
    /\ Len(conversation_history) = 12
    /\ Tail(last.messages) = SubSeq(conversation_history, 2, 11)
    /\ conversation_history[2] # conversation_history[12]

\* C18: turns are only appended: over a step that is not clear_conversation
\* the history before is a prefix of the history after, and a step that
\* leaves the history shorter is clear_conversation and leaves it empty.
C18_AppendOnly ==
    [][/\ ~ClearConversation
            => IsPrefix(conversation_history, conversation_history')
       /\ Len(conversation_history') < Len(conversation_history)
            => ClearConversation /\ conversation_history' = <<>>]_vars

\* C18, its case: the history was reset after an ask that had appended to it.
C18_Witness ==
    /\ conversation_history = <<>>
    /\ Contains(last.events, "append_assistant")

\* C19: the profiler gives the column response_id no type: it is not in the
\* column-type mapping nor in any of the four per-type lists.
C19_IdentifierNeverClassified ==
    /\ "response_id" \notin DOMAIN column_types
    /\ "response_id" \notin SeqToSet(numeric_columns)
    /\ "response_id" \notin SeqToSet(categorical_columns)
    /\ "response_id" \notin SeqToSet(datetime_columns)
    /\ "response_id" \notin SeqToSet(text_columns)

\* C19, its case: a dataset with rows whose second column is a numeric
\* response_id, the other columns being classified, after an ask.
C19_Witness ==
    /\ Len(columns) > 1
    /\ columns[2] = "response_id"
    /\ df.cols[2].dtype = "numeric"
    /\ numeric_columns # <<>>
    /\ DOMAIN column_types = SeqToSet(columns) \ {"response_id"}
    /\ last.events # <<>>

\* C20: on a dataset with rows, a classified column that is neither numeric
\* nor temporal is categorical exactly when 5 * distinct_values < row_count
\* and text otherwise; at a ratio of exactly 0.2 it is text.
C20_CategoricalBelowFifth ==
    \A i \in 1..Len(df.cols) :
        (/\ ~DfEmpty(df)
         /\ df.cols[i].dtype = "object"
         /\ df.cols[i].name # "response_id")
            => LET name == df.cols[i].name
                   below == 5 * df.cols[i].nunique < df.nrows
               IN  /\ column_types[name]
                        = IF below THEN "categorical" ELSE "text"
                   /\ name \in SeqToSet(categorical_columns) <=> below
                   /\ name \in SeqToSet(text_columns) <=> ~below

\* C20, its case: a column with one distinct value in five rows, ratio 0.2,
\* classified text, after an ask.
C20_Witness ==
    /\ df.nrows = 5
    /\ \E i \in 1..Len(df.cols) :
        /\ df.cols[i].name = "age_group"
        /\ df.cols[i].dtype = "object"
        /\ df.cols[i].nunique = 1
    /\ column_types["age_group"] = "text"
    /\ last.events # <<>>

\* C21 (as claimed): the generated code reaches nothing of the pipeline but
\* df and the plotting namespace: over an ask that ran the sandbox the
\* history gains the user's turn and the assistant's turn that ask itself
\* appends, and nothing written by the generated code.
C21_SandboxIsolated ==
    [][(~ClearConversation /\ last'.sandbox_runs = 1)
        => conversation_history'
            = conversation_history
                \o <<Turn("user", last'.query),
                     Turn("assistant", Strip(last'.completion))>>]_vars

\* C22: the messages of a generation request are the system prompt followed
\* by the most recent turns of the history, at most 10 of them, in order, and
\* nothing else; the last message is the user turn of the current query.
C22_RequestIsPromptAndWindow ==
    [][(~ClearConversation /\ last'.messages # <<>>)
        => LET h == Append(conversation_history, Turn("user", last'.query))
               n == IF Len(h) < WindowSize THEN Len(h) ELSE WindowSize
               m == last'.messages
           IN  /\ Len(m) = n + 1
               /\ m[1].role = "system"
               /\ m[1].content[1] \in {"visualization", "narrative"}
               /\ \A i \in 1..n : m[i + 1] = h[Len(h) - n + i]
               /\ m[Len(m)] = Turn("user", last'.query)]_vars

\* C22, its case: a request of eleven messages, built after a failed query
\* had left two user turns in a row in a history longer than the window.
C22_Witness ==
    /\ Len(last.messages) = WindowSize + 1
    /\ last.messages[1].role = "system"
    /\ last.messages[WindowSize + 1] = Turn("user", last.query)
    /\ last.messages[WindowSize].role = "user"
    /\ Len(conversation_history) > WindowSize + 1

\* how many times the event e is in the events of the last ask
EventCount(e) == Cardinality({i \in 1..Len(last.events) : last.events[i] = e})

\* C23 (as claimed): in an ask on a non-empty dataset the stages come in the
\* order relevance selection, context assembly, generation call, parsing,
\* sandbox (when a code block is present) and only then the append of the
\* assistant turn; each completion call is made at most once.
C23_StagesInOrder ==
    last.events # <<>>
        => /\ EventAt("relevance_call") < EventAt("data_summary")
           /\ EventAt("data_summary") < EventAt("generation_call")
           /\ EventCount("relevance_call") <= 1
           /\ EventCount("generation_call") <= 1
           /\ Contains(last.events, "parse")
                => EventAt("generation_call") < EventAt("parse")
           /\ Contains(last.events, "sandbox")
                => EventAt("parse") < EventAt("sandbox")
           /\ Contains(last.events, "append_assistant")
                => /\ EventAt("parse") < EventAt("append_assistant")
                   /\ EventAt("sandbox") < EventAt("append_assistant")

C26_NoDataLeavesHistory ==
    [][(~ClearConversation /\ (columns = <<>> \/ DfEmpty(df)))
        => conversation_history' = conversation_history]_vars

\* C26, its case: a plain question answered by the early return, on a dataset
\* that has a column and no rows.
C26_Witness ==
    /\ df = NoRowsDf
    /\ last.path = "no_data"
    /\ last.query = <<"a", "v", "g", "?">>
    /\ conversation_history = <<>>

\* the documents the store holds under chat_id
StoredChatOf(chat_id) == Matching(chats_table, chat_id)

\* a step of the dashboard that processes a submitted message
ProcessStep ==
    session_state.process_message /\ ~session_state'.process_message

\* C27: creating, switching to and deleting a chat leave the chatbot's
\* history as it was: it changes only in a step that processes a message;
\* and the request of a processed message carries the most recent turns of
\* that history, those asked in another chat included.
C27_ChatOperationsKeepHistory ==
    [][/\ conversation_history' # conversation_history => ProcessStep
       /\ (ProcessStep /\ last'.messages # <<>>)
            => \A i \in 1..Len(conversation_history) :
                    i > Len(conversation_history) - (WindowSize - 1)
                        => \E j \in 2..Len(last'.messages) :
                             last'.messages[j] = conversation_history[i]]_vars

\* C27, its case: a question asked in a new, second chat, whose log holds
\* that one exchange, was sent with the question asked in the first chat.
C27_Witness ==
    /\ session_state.current_chat_id = 2
    /\ Len(session_state.messages) = 2
    /\ Len(last.messages) = 4
    /\ last.messages[2].role = "user"
    /\ last.messages[2].content # session_state.messages[1].content
    /\ last.messages[4].content = session_state.messages[1].content
    /\ StoredChatOf(1) # <<>>
    /\ StoredChatOf(1)[1].messages[1].content = last.messages[2].content

\* the messages the store holds for the chat chat_id of table
StoredMessages(table, chat_id) == Matching(table, chat_id)[1].messages

\* after is before with a user entry for message and then an assistant entry
\* for text, and nothing more
OneExchange(before, after, message, text) ==
    /\ Len(after) = Len(before) + 2
    /\ SubSeq(after, 1, Len(before)) = before
    /\ after[Len(before) + 1].role = "user"
    /\ after[Len(before) + 1].content = message
    /\ after[Len(before) + 2].role = "assistant"
    /\ after[Len(before) + 2].content = text

\* C28 (as claimed): the processing of a submitted message appends one user
\* entry and then one assistant entry to the session's message log and to
\* the messages stored for the current chat, whatever ask did, passes the
\* message to ask, and clears the processing flag.
C28_OneExchangePerMessage ==
    [][(session_state.process_message /\ ~session_state'.process_message)
        => /\ OneExchange(session_state.messages, session_state'.messages,
                          session_state.current_message, last'.text)
           /\ OneExchange(
                StoredMessages(chats_table, session_state.current_chat_id),
                StoredMessages(chats_table', session_state.current_chat_id),
                session_state.current_message, last'.text)
           /\ last'.query = session_state.current_message
           /\ session_state'.current_message = <<>>]_vars

\* C29: the current chat id of the session is the id of a chat of the store;
\* a step that deletes the current chat makes the most recently updated of
\* the remaining chats current, with its messages as the log, or, when none
\* remains, a newly created chat with no messages.
C29_CurrentChatExists ==
    /\ [](session_state.current_chat_id \in ChatIds(chats_table))
    /\ [][session_state.current_chat_id \notin ChatIds(chats_table')
            => LET current == session_state'.current_chat_id
                   remaining == ChatIds(chats_table)
                                    \ {session_state.current_chat_id}
               IN  /\ Matching(chats_table', current) # <<>>
                   /\ session_state'.messages
                        = Matching(chats_table', current)[1].messages
                   /\ IF remaining # {}
                      THEN /\ ChatIds(chats_table') = remaining
                           /\ \A i \in 1..Len(chats_table') :
                                chats_table'[i].updated_at
                                    <= Matching(chats_table',
                                                current)[1].updated_at
                      ELSE /\ ChatIds(chats_table') = {current}
                           /\ current \notin ChatIds(chats_table)
                           /\ session_state'.messages = <<>>]_vars

\* C29, its case: the third chat, current, was deleted, and of the two that
\* remain the older one, updated last, is current.
C29_Witness ==
    /\ uuids = 3
    /\ ChatIds(chats_table) = {1, 2}
    /\ StoredChatOf(2)[1].updated_at < StoredChatOf(1)[1].updated_at
    /\ session_state.current_chat_id = 1
    /\ session_state.messages # <<>>

====
